---------------------------- MODULE Spec2Model ----------------------------
(***************************************************************************)
(* The two conversion scripts of the repository, model_converters/coreml.py *)
(* and model_converters/onnx_convert.py, as one state machine: a run of     *)
(* either script from module import to its last statement, or to the        *)
(* uncaught exception that aborts it.                                       *)
(*                                                                          *)
(* Weight keys are Python strings and are modelled as sequences of          *)
(* one-character strings, so that str.startswith and str.replace do here    *)
(* what they do in Python.  A dict is a sequence of [key, value] records in *)
(* insertion order.  Tensors are opaque values (small naturals).            *)
(***************************************************************************)
EXTENDS Naturals, Integers, Sequences, FiniteSets, TLC

VARIABLES
    pipeline,        \* "coreml" | "onnx": which script runs
    pc,              \* the statement of the script that runs next
    patchCount,      \* how often the module-level patch has been applied
    config,          \* AutoConfig.from_pretrained(model_id), NoConfig before
    model,           \* the wrapper nn.Module, NoModel before construction
    downloads,       \* the hf_hub_download attempts so far, in order
    state_dict,      \* the downloaded weight store
    new_state_dict,  \* load_weights_from_original's remapped store
    missing,         \* load_state_dict's missing_keys
    unexpected,      \* load_state_dict's unexpected_keys
    warnings,        \* the warning lines printed by load_weights_from_original
    outputs,         \* the eager forward pass's tuple: the logit tensor of each head
    traced,          \* the captured graph, NoGraph before capture
    output_names,    \* the output_names list of main()
    exported,        \* the exported graph, NoGraph before export
    artifacts,       \* the files on disk, in the order written
    metadata,        \* the content of classifier_metadata.json, NoMetadata before
    ort_outputs,     \* session.run's outputs, each with its deviation from the eager one
    report,          \* the lines printed by the comparison loop of step 8
    history,         \* the steps the run has completed, in order
    pooling          \* one call of MeanPooling.forward: its arguments, then its results too

vars == <<pipeline, pc, patchCount, config, model, downloads, state_dict,
          new_state_dict, missing, unexpected, warnings, outputs, traced,
          output_names, exported, artifacts, metadata, ort_outputs, report,
          history, pooling>>

-----------------------------------------------------------------------------
(* Bounds of the model *)

\* the largest number of heads of a configuration
MaxHeads == 9
\* the largest number of entries of a weight store drawn for the remapper
MaxKeys == 2
\* the tensors of a drawn weight store are 1..MaxTensor
MaxTensor == 2
\* the longest token sequence pooled
MaxSeq == 2
\* the largest hidden dimension pooled
MaxDim == 2

-----------------------------------------------------------------------------
(* Constants of the program *)

\* the tolerance 1e-4 of the comparison loop, in units of 1e-6
Tolerance == 100
\* 1 / 1e-9, for the minimum 1e-9 that MeanPooling clamps its divisor to
EpsilonInverse == 1000000000

-----------------------------------------------------------------------------
(* Python strings *)

Digits == <<"0","1","2","3","4","5","6","7","8","9">>

IsDigit(c) == \E i \in 1..Len(Digits) : Digits[i] = c

\* f"{i}" for a non-negative int
RECURSIVE ToStr(_)
ToStr(n) ==
    IF n < 10 THEN <<Digits[n + 1]>>
    ELSE ToStr(n \div 10) \o <<Digits[(n % 10) + 1]>>

\* s.startswith(p)
StartsWith(s, p) == Len(s) >= Len(p) /\ SubSeq(s, 1, Len(p)) = p

\* s.replace(old, new): every non-overlapping occurrence, left to right
RECURSIVE Replace(_, _, _)
Replace(s, old, new) ==
    IF Len(s) < Len(old) THEN s
    ELSE IF StartsWith(s, old)
         THEN new \o Replace(SubSeq(s, Len(old) + 1, Len(s)), old, new)
         ELSE <<Head(s)>> \o Replace(Tail(s), old, new)

S_head_ == <<"h","e","a","d","_">>
S_heads_dot == <<"h","e","a","d","s",".">>
S_fc_weight == <<".","f","c",".","w","e","i","g","h","t">>
S_fc_bias == <<".","f","c",".","b","i","a","s">>
K_backbone_weight == <<"b","a","c","k","b","o","n","e",".","e","n","c","o","d","e","r",".","w","e","i","g","h","t">>
K_backbone_buffer == <<"b","a","c","k","b","o","n","e",".","p","o","s","i","t","i","o","n","_","i","d","s">>
K_head_norm == <<"h","e","a","d","_","n","o","r","m",".","w","e","i","g","h","t">>
K_head0_headproj == <<"h","e","a","d","_","0",".","h","e","a","d","_","p","r","o","j",".","w","e","i","g","h","t">>
K_backbone_head == <<"b","a","c","k","b","o","n","e",".","h","e","a","d","_","s","i","z","e">>

-----------------------------------------------------------------------------
(* Python dicts, in insertion order *)

Range(s) == {s[i] : i \in 1..Len(s)}

Keys(d) == {d[i].key : i \in 1..Len(d)}

KeyList(d) == [i \in 1..Len(d) |-> d[i].key]

\* d[k], for k in d
DictGet(d, k) == d[CHOOSE i \in 1..Len(d) : d[i].key = k].value

\* d[k] = v: an existing key keeps its place and takes the new value
DictSet(d, k, v) ==
    IF k \in Keys(d)
    THEN [i \in 1..Len(d) |-> IF d[i].key = k THEN [key |-> k, value |-> v] ELSE d[i]]
    ELSE Append(d, [key |-> k, value |-> v])

-----------------------------------------------------------------------------
(* JSON, as the json module writes and reads it *)
(*                                                                         *)
(* A Python value is [type |-> "str", text], [type |-> "int", n],          *)
(* [type |-> "float", n] (the float n.0) or [type |-> "list", items]; a    *)
(* JSON value is [json |-> "string", text], [json |-> "number", text] or   *)
(* [json |-> "array", items]; texts are sequences of characters.  A JSON   *)
(* object is a sequence of [key |-> text, value |-> JSON value].           *)

PyStr(text) == [type |-> "str", text |-> text]
PyInt(n) == [type |-> "int", n |-> n]
PyFloat(n) == [type |-> "float", n |-> n]
PyList(items) == [type |-> "list", items |-> items]

\* int(text) of a text of digits
RECURSIVE ParseNat(_)
ParseNat(text) ==
    IF text = <<>> THEN 0
    ELSE LET last == text[Len(text)]
             digit == CHOOSE d \in 0..9 : Digits[d + 1] = last
         IN  10 * ParseNat(SubSeq(text, 1, Len(text) - 1)) + digit

\* the place of the first "." of a text, 0 when it has none
PointAt(text) ==
    IF \E i \in 1..Len(text) : text[i] = "."
    THEN CHOOSE i \in 1..Len(text) : text[i] = "." /\ \A j \in 1..(i - 1) : text[j] # "."
    ELSE 0

\* json.dumps of a value: an int as its digits, a float by its repr, a list
\* as an array
RECURSIVE JsonDumpValue(_)
JsonDumpValue(v) ==
    CASE v.type = "str" -> [json |-> "string", text |-> v.text]
      [] v.type = "int" -> [json |-> "number", text |-> ToStr(v.n)]
      [] v.type = "float" -> [json |-> "number", text |-> ToStr(v.n) \o <<".", "0">>]
      [] v.type = "list" ->
            [json |-> "array",
             items |-> [i \in 1..Len(v.items) |-> JsonDumpValue(v.items[i])]]

\* json.loads of a value: a number with a "." is a float, any other an int
RECURSIVE JsonLoadValue(_)
JsonLoadValue(j) ==
    CASE j.json = "string" -> PyStr(j.text)
      [] j.json = "number" ->
            IF PointAt(j.text) = 0
            THEN PyInt(ParseNat(j.text))
            ELSE PyFloat(ParseNat(SubSeq(j.text, 1, PointAt(j.text) - 1)))
      [] j.json = "array" ->
            PyList([i \in 1..Len(j.items) |-> JsonLoadValue(j.items[i])])

\* json.dumps of a dict key: a str key as it is, an int key as its digits
JsonDumpKey(k) == IF k.type = "int" THEN ToStr(k.n) ELSE k.text

\* json.loads of an object key: always a str
JsonLoadKey(text) == PyStr(text)

\* json.dump of a dict: its items in order
JsonDumpObject(d) ==
    [i \in 1..Len(d) |-> [key |-> JsonDumpKey(d[i].key), value |-> JsonDumpValue(d[i].value)]]

\* the dict json.load builds from an object: a key met again takes the later
\* value
RECURSIVE JsonLoadInto(_, _)
JsonLoadInto(d, members) ==
    IF members = <<>> THEN d
    ELSE JsonLoadInto(DictSet(d, JsonLoadKey(Head(members).key),
                              JsonLoadValue(Head(members).value)),
                      Tail(members))

JsonLoadObject(members) == JsonLoadInto(<<>>, members)

-----------------------------------------------------------------------------
(* The wrapper models and their registered keys *)

NoConfig == [loaded |-> FALSE]
NoModel == [built |-> FALSE]
NoGraph == [captured |-> FALSE]
NoMetadata == [written |-> FALSE]
NoPooling == [state |-> "none"]

\* the tensor a parameter holds before any weight is loaded into it
InitTensor == 0

\* nn.ModuleList registers its i-th member under heads.<i>
ListHeadKeys(i) ==
    <<S_heads_dot \o ToStr(i) \o S_fc_weight, S_heads_dot \o ToStr(i) \o S_fc_bias>>

\* add_module(f"head_{i}", head) registers the head under head_<i>
EnumHeadKeys(i) ==
    <<S_head_ \o ToStr(i) \o S_fc_weight, S_head_ \o ToStr(i) \o S_fc_bias>>

\* the keys of the heads 0..n-1 of a wrapper, in registration order
RECURSIVE HeadKeys(_, _)
HeadKeys(p, n) ==
    IF n = 0 THEN <<>>
    ELSE HeadKeys(p, n - 1) \o (IF p = "onnx" THEN ListHeadKeys(n - 1) ELSE EnumHeadKeys(n - 1))

\* the parameter keys of a wrapper: its backbone's, then its heads'
ParamKeys(p, n) == <<K_backbone_weight>> \o HeadKeys(p, n)

\* the buffer keys of a wrapper: the backbone of some library versions
\* registers a position-id cache, that of others none
BufferKeys(hasBuffer) == IF hasBuffer THEN <<K_backbone_buffer>> ELSE <<>>

\* model.state_dict().keys()
ExpectedKeys(m) == m.param_keys \o m.buffer_keys

-----------------------------------------------------------------------------
(* load_weights_from_original: the key remapping and the non-strict load *)

\* the body of the loop: the key an entry is stored under
NewKey(key) ==
    IF StartsWith(key, S_head_) THEN Replace(key, S_head_, S_heads_dot) ELSE key

\* the loop over state_dict.items(), from the new_state_dict built so far
RECURSIVE RemapInto(_, _)
RemapInto(new, items) ==
    IF items = <<>> THEN new
    ELSE RemapInto(DictSet(new, NewKey(Head(items).key), Head(items).value), Tail(items))

RemapKeys(sd) == RemapInto(<<>>, sd)

\* load_state_dict(sd, strict=False): its missing_keys
MissingKeys(m, sd) == SelectSeq(ExpectedKeys(m), LAMBDA k : k \notin Keys(sd))

\* load_state_dict(sd, strict=False): its unexpected_keys
UnexpectedKeys(m, sd) == SelectSeq(KeyList(sd), LAMBDA k : k \notin Range(ExpectedKeys(m)))

\* load_state_dict(sd, strict=False): the tensors of the module afterwards
LoadedTensors(m, sd) ==
    [i \in 1..Len(m.tensors) |->
        IF m.tensors[i].key \in Keys(sd)
        THEN [key |-> m.tensors[i].key, value |-> DictGet(sd, m.tensors[i].key)]
        ELSE m.tensors[i]]

\* whether strict=False lets the load go on with keys missing or unexpected
LoadAborts(miss, unexp) == FALSE

\* the two warning prints of load_weights_from_original
LoadWarnings(miss, unexp) ==
    (IF miss # <<>> THEN <<[kind |-> "missing", count |-> Len(miss)]>> ELSE <<>>)
    \o (IF unexp # <<>> THEN <<[kind |-> "unexpected", keys |-> unexp]>> ELSE <<>>)

-----------------------------------------------------------------------------
(* The configuration and the hub's weight files *)

\* config.target_sizes of the shipped model: head name -> class count, in order
ShippedTargetSizes ==
    << [name |-> "task_type", size |-> 12],
       [name |-> "creativity_scope", size |-> 3],
       [name |-> "reasoning", size |-> 2],
       [name |-> "contextual_knowledge", size |-> 2],
       [name |-> "number_of_few_shots", size |-> 6],
       [name |-> "domain_knowledge", size |-> 4],
       [name |-> "no_label_reason", size |-> 1],
       [name |-> "constraint_ct", size |-> 2] >>

\* further heads, for configurations with more heads than the shipped one
MoreTargetSizes ==
    << [name |-> "extra_a", size |-> 5],
       [name |-> "extra_b", size |-> 7],
       [name |-> "extra_c", size |-> 3],
       [name |-> "extra_d", size |-> 9] >>

HeadPool == ShippedTargetSizes \o MoreTargetSizes

\* a list with its first two entries exchanged
SwapFirstTwo(s) == [i \in 1..Len(s) |-> IF i = 1 THEN s[2] ELSE IF i = 2 THEN s[1] ELSE s[i]]

\* the target_sizes AutoConfig.from_pretrained may return: 1..MaxHeads heads
\* of the pool, in the pool's order or with the first two exchanged
Configs ==
    LET top == IF MaxHeads < Len(HeadPool) THEN MaxHeads ELSE Len(HeadPool)
    IN  {SubSeq(HeadPool, 1, n) : n \in 1..top}
        \cup {SwapFirstTwo(SubSeq(HeadPool, 1, n)) : n \in 2..top}

\* a number of config.json: n, or n.0 when the file writes its numbers as
\* floats
NumberJson(n, floats) ==
    [json |-> "number", text |-> IF floats THEN ToStr(n) \o <<".", "0">> ELSE ToStr(n)]

\* task_type_map of config.json: class index -> task name, for the classes
\* of the first head
TaskTypeMapJson(ts) ==
    [i \in 1..ts[1].size |->
        [key |-> ToStr(i - 1), value |-> [json |-> "string", text |-> <<"task ">> \o ToStr(i - 1)]]]

\* weights_map of config.json: head name -> one weight per class, for the
\* heads after the first
WeightsMapJson(ts, floats) ==
    [i \in 1..(Len(ts) - 1) |->
        [key |-> <<ts[i + 1].name>>,
         value |-> [json |-> "array",
                    items |-> [c \in 1..ts[i + 1].size |->
                                  NumberJson(ts[i + 1].size - c, floats)]]]]

\* divisor_map of config.json: head name -> divisor, for the heads after the
\* first
DivisorMapJson(ts, floats) ==
    [i \in 1..(Len(ts) - 1) |->
        [key |-> <<ts[i + 1].name>>, value |-> NumberJson(ts[i + 1].size, floats)]]

\* ConfigKey with a key of digits made a class index, as PretrainedConfig
\* does for id2label
ConfigKeyAsIndex(k) ==
    IF k.text # <<>> /\ \A i \in 1..Len(k.text) : IsDigit(k.text[i])
    THEN PyInt(ParseNat(k.text))
    ELSE k

\* the key under which PretrainedConfig keeps an entry of a dict attribute
\* read from config.json: the key json.loads gave
ConfigKey(k) == k

\* a dict attribute of the configuration, read from its JSON object
ConfigAttr(members) ==
    LET d == JsonLoadObject(members)
    IN  [i \in 1..Len(d) |-> [key |-> ConfigKey(d[i].key), value |-> d[i].value]]

\* AutoConfig.from_pretrained(model_id) on a config.json of the heads ts
ConfigFrom(ts, floats) ==
    [loaded |-> TRUE,
     target_sizes |-> ts,
     task_type_map |-> ConfigAttr(TaskTypeMapJson(ts)),
     weights_map |-> ConfigAttr(WeightsMapJson(ts, floats)),
     divisor_map |-> ConfigAttr(DivisorMapJson(ts, floats))]

\* Values with the last value left out
ValuesButLast(ts) == [i \in 1..(Len(ts) - 1) |-> ts[i].size]

\* list(config.target_sizes.values())
Values(ts) == [i \in 1..Len(ts) |-> ts[i].size]

\* the two weight files of the hub repository, in the order they are tried
WeightFiles == <<"model.safetensors", "pytorch_model.bin">>

\* the tensors of a file are told apart by the file they come from
FileTensor(file) == IF file = WeightFiles[1] THEN 1 ELSE 2

\* what a weight file of the hub may hold, for a model of n heads: every key
\* of the original layout, or that with one key left out
StoreVariants == {"full", "no_buffer", "no_head_weight", "no_backbone_weight"}

\* the original model's store: backbone, buffer, head_<i>.fc.weight/bias
OriginalStore(n, file, variant) ==
    LET all == <<K_backbone_weight, K_backbone_buffer>> \o HeadKeys("coreml", n)
        dropped == CASE variant = "no_buffer" -> K_backbone_buffer
                     [] variant = "no_head_weight" -> EnumHeadKeys(n - 1)[1]
                     [] variant = "no_backbone_weight" -> K_backbone_weight
                     [] OTHER -> <<>>
        kept == SelectSeq(all, LAMBDA k : k # dropped)
    IN  [i \in 1..Len(kept) |-> [key |-> kept[i], value |-> FileTensor(file)]]

-----------------------------------------------------------------------------
(* The statements of the two scripts *)

\* CoremlSteps with the wrapper built before the download, as in
\* onnx_convert.py
CoremlStepsWrapperFirst ==
    <<"import", "load_config", "init_model", "download", "load_weights",
      "prepare_input", "trace", "convert", "save", "done">>

CoremlSteps ==
    <<"import", "load_config", "download", "init_model", "load_weights",
      "prepare_input", "trace", "convert", "save", "done">>

OnnxSteps ==
    <<"import", "load_config", "init_model", "download", "load_weights",
      "prepare_input", "forward", "export", "verify", "ort_session", "compare",
      "save_tokenizer", "save_config", "write_metadata", "done">>

Steps(p) == IF p = "onnx" THEN OnnxSteps ELSE CoremlSteps

\* the statement that follows step s of script p
After(p, s) ==
    LET i == CHOOSE i \in 1..Len(Steps(p)) : Steps(p)[i] = s
    IN  Steps(p)[i + 1]

\* PatchesAtImport with the two rebinding statements left out of coreml.py
PatchesNowhere(p) == FALSE

\* whether importing the script applies the DeBERTa patches
PatchesAtImport(p) == p = "coreml"

\* OutputNames with its first two names exchanged
OutputNamesSwapped ==
    <<"logits_creativity_scope", "logits_task_type", "logits_reasoning",
      "logits_contextual_knowledge", "logits_few_shots", "logits_domain_knowledge",
      "logits_no_label_reason", "logits_constraint_ct">>

\* the output_names list written out in main(), the same in both scripts
OutputNames ==
    <<"logits_task_type", "logits_creativity_scope", "logits_reasoning",
      "logits_contextual_knowledge", "logits_few_shots", "logits_domain_knowledge",
      "logits_no_label_reason", "logits_constraint_ct">>

\* the name a head of OriginalCustomModel is registered and looked up under:
\* f"head_{i}"
HeadName(i) == S_head_ \o ToStr(i)

\* head(pooled): the logit tensor of one head, as wide as the head has classes
Logits(head) == [head |-> head.index, width |-> head.num_classes]

\* forward() with the heads taken last to first
ForwardReversed(m) ==
    [i \in 1..Len(m.heads) |-> Logits(m.heads[Len(m.heads) + 1 - i])]

\* the tuple forward() returns, one logit tensor per head:
\* PromptClassifierONNX walks self.heads; OriginalCustomModel counts i over
\* range(len(self.target_sizes)) and takes getattr(self, f"head_{i}")
Forward(m) ==
    IF m.wrapper = "onnx"
    THEN [i \in 1..Len(m.heads) |-> Logits(m.heads[i])]
    ELSE [i \in 1..Len(m.target_sizes) |-> Logits(DictGet(m.modules, HeadName(i - 1)))]

\* the exporter's check of the names against the traced outputs:
\* torch.onnx.export refuses more names than outputs, coremltools.convert
\* any other number of names than outputs
NamesRefused(p, names, outs) ==
    IF p = "onnx" THEN Len(names) > Len(outs) ELSE Len(names) # Len(outs)

\* the names of the exported graph's outputs: the given ones, and the
\* exporter's own for the outputs past them
GraphNames(names, outs) ==
    [i \in 1..Len(outs) |-> IF i <= Len(names) THEN names[i] ELSE "<auto>"]

\* the files each step writes
ModelFile(p) == IF p = "onnx" THEN "model.onnx" ELSE "PromptGrader.mlpackage"
TokenizerFiles == <<"tokenizer.json", "tokenizer_config.json", "special_tokens_map.json">>
ConfigFile == "config.json"
MetadataFile == "classifier_metadata.json"

-----------------------------------------------------------------------------
(* The run of a script *)

Init ==
    /\ pipeline \in {"coreml", "onnx"}
    /\ pc = "import"
    /\ patchCount = 0
    /\ config = NoConfig
    /\ model = NoModel
    /\ downloads = <<>>
    /\ state_dict = <<>>
    /\ new_state_dict = <<>>
    /\ missing = <<>>
    /\ unexpected = <<>>
    /\ warnings = <<>>
    /\ outputs = <<>>
    /\ traced = NoGraph
    /\ output_names = <<>>
    /\ exported = NoGraph
    /\ artifacts = <<>>
    /\ metadata = NoMetadata
    /\ pooling = NoPooling
    /\ history = <<>>
    /\ report = <<>>
    /\ ort_outputs = <<>>

\* the steps completed once an action has run: its own, unless it raised (or
\* left the second download to do)
Performed(done, next, steps) ==
    IF next \in {"aborted", "download_fallback"} THEN done ELSE done \o steps

\* the module-level statements: coreml.py rebinds scaled_size_sqrt and
\* build_rpos, onnx_convert.py only imports and defines
ImportModule ==
    /\ pc = "import"
    /\ patchCount' = IF PatchesAtImport(pipeline) THEN patchCount + 1 ELSE patchCount
    /\ pc' = After(pipeline, "import")
    /\ UNCHANGED <<pipeline, config, model, downloads, state_dict, new_state_dict,
                   missing, unexpected, warnings, outputs, traced, output_names,
                   exported, artifacts, metadata, ort_outputs, report, pooling>>
    /\ history' = Performed(history, pc',
                            IF PatchesAtImport(pipeline) THEN <<"patch">> ELSE <<>>)

\* config = AutoConfig.from_pretrained(model_id)
LoadConfig ==
    /\ pc = "load_config"
    /\ \/ \E ts \in Configs, floats \in BOOLEAN :
            /\ config' = ConfigFrom(ts, floats)
            /\ pc' = After(pipeline, "load_config")
       \/ /\ config' = config
          /\ pc' = "aborted"
    /\ UNCHANGED <<pipeline, patchCount, model, downloads, state_dict,
                   new_state_dict, missing, unexpected, warnings, outputs, traced,
                   output_names, exported, artifacts, metadata, ort_outputs,
                   report, pooling>>
    /\ history' = Performed(history, pc', <<"config">>)

\* PromptClassifierONNX(config) / OriginalCustomModel(target_sizes=...): one
\* head per value of target_sizes, in its order
NewModel(p, ts, hasBuffer) ==
    LET keys == ParamKeys(p, Len(ts)) \o BufferKeys(hasBuffer)
        sizes == Values(ts)
        heads == [i \in 1..Len(sizes) |-> [index |-> i - 1, num_classes |-> sizes[i]]]
    IN  [built |-> TRUE,
         wrapper |-> p,
         target_sizes |-> sizes,
         heads |-> heads,
         modules |-> IF p = "coreml"
                     THEN [i \in 1..Len(heads) |-> [key |-> HeadName(i - 1), value |-> heads[i]]]
                     ELSE <<>>,
         param_keys |-> ParamKeys(p, Len(ts)),
         buffer_keys |-> BufferKeys(hasBuffer),
         tensors |-> [i \in 1..Len(keys) |-> [key |-> keys[i], value |-> InitTensor]],
         eval |-> FALSE,
         patches |-> patchCount]

InitModel ==
    /\ pc = "init_model"
    /\ \/ \E hasBuffer \in BOOLEAN :
            /\ model' = NewModel(pipeline, config.target_sizes, hasBuffer)
            /\ pc' = After(pipeline, "init_model")
       \/ /\ model' = model
          /\ pc' = "aborted"
    /\ UNCHANGED <<pipeline, patchCount, config, downloads, state_dict,
                   new_state_dict, missing, unexpected, warnings, outputs, traced,
                   output_names, exported, artifacts, metadata, ort_outputs,
                   report, pooling>>
    /\ history' = Performed(history, pc', <<"wrapper">>)

\* FallbackTaken with the second download run whatever the try block did
FallbackAlways(ok) == TRUE

\* whether the except branch runs: only when the try block raised
FallbackTaken(ok) == ~ok

\* the try block: hf_hub_download("model.safetensors") and load_file
DownloadSafetensors ==
    /\ pc = "download"
    /\ \E ok \in BOOLEAN :
         /\ downloads' = Append(downloads, [file |-> WeightFiles[1], ok |-> ok])
         /\ IF FallbackTaken(ok)
            THEN /\ state_dict' = state_dict
                 /\ pc' = "download_fallback"
            ELSE /\ \E v \in StoreVariants :
                      state_dict' = OriginalStore(Len(config.target_sizes), WeightFiles[1], v)
                 /\ pc' = After(pipeline, "download")
    /\ UNCHANGED <<pipeline, patchCount, config, model, new_state_dict, missing,
                   unexpected, warnings, outputs, traced, output_names, exported,
                   artifacts, metadata, ort_outputs, report, pooling>>
    /\ history' = Performed(history, pc', <<"download">>)

\* the except branch: hf_hub_download("pytorch_model.bin") and torch.load;
\* an exception here is not caught
DownloadBin ==
    /\ pc = "download_fallback"
    /\ \/ /\ \E v \in StoreVariants :
               state_dict' = OriginalStore(Len(config.target_sizes), WeightFiles[2], v)
          /\ downloads' = Append(downloads, [file |-> WeightFiles[2], ok |-> TRUE])
          /\ pc' = After(pipeline, "download")
       \/ /\ state_dict' = state_dict
          /\ downloads' = Append(downloads, [file |-> WeightFiles[2], ok |-> FALSE])
          /\ pc' = "aborted"
    /\ UNCHANGED <<pipeline, patchCount, config, model, new_state_dict, missing,
                   unexpected, warnings, outputs, traced, output_names, exported,
                   artifacts, metadata, ort_outputs, report, pooling>>
    /\ history' = Performed(history, pc', <<"download">>)

\* StoreToLoad with the downloaded store handed over as it is in both scripts
StoreAsDownloaded(p, sd) == sd

\* the store handed to load_state_dict: onnx_convert.py remaps the keys
\* first, coreml.py loads the downloaded store as it is
StoreToLoad(p, sd) == IF p = "onnx" THEN RemapKeys(sd) ELSE sd

\* onnx_convert.py: load_weights_from_original(model, state_dict); model.eval()
\* coreml.py: model.load_state_dict(state_dict, strict=False); model.eval()
LoadWeights ==
    /\ pc = "load_weights"
    /\ LET sd == StoreToLoad(pipeline, state_dict)
           miss == MissingKeys(model, sd)
           unexp == UnexpectedKeys(model, sd)
       IN  /\ new_state_dict' = IF pipeline = "onnx" THEN sd ELSE new_state_dict
           /\ missing' = miss
           /\ unexpected' = unexp
           /\ IF LoadAborts(miss, unexp)
              THEN /\ pc' = "aborted"
                   /\ UNCHANGED <<model, warnings>>
              ELSE /\ model' = [model EXCEPT !.tensors = LoadedTensors(model, sd),
                                             !.eval = TRUE]
                   /\ warnings' = IF pipeline = "onnx"
                                  THEN warnings \o LoadWarnings(miss, unexp)
                                  ELSE warnings
                   /\ pc' = After(pipeline, "load_weights")
    /\ UNCHANGED <<pipeline, patchCount, config, downloads, state_dict, outputs,
                   traced, output_names, exported, artifacts, metadata,
                   ort_outputs, report, pooling>>
    /\ history' = Performed(history, pc',
                            IF pipeline = "onnx" THEN <<"remap", "load">> ELSE <<"load">>)

\* AutoTokenizer.from_pretrained(model_id) and the tokenizer call on the
\* sample text
PrepareInput ==
    /\ pc = "prepare_input"
    /\ \/ pc' = After(pipeline, "prepare_input")
       \/ pc' = "aborted"
    /\ UNCHANGED <<pipeline, patchCount, config, model, downloads, state_dict,
                   new_state_dict, missing, unexpected, warnings, outputs, traced,
                   output_names, exported, artifacts, metadata, ort_outputs,
                   report, pooling>>
    /\ history' = Performed(history, pc', <<"input">>)

\* onnx_convert.py, step 5: outputs = model(input_ids, attention_mask)
ForwardPass ==
    /\ pc = "forward"
    /\ \/ /\ outputs' = Forward(model)
          /\ pc' = After(pipeline, "forward")
       \/ /\ outputs' = outputs
          /\ pc' = "aborted"
    /\ UNCHANGED <<pipeline, patchCount, config, model, downloads, state_dict,
                   new_state_dict, missing, unexpected, warnings, traced,
                   output_names, exported, artifacts, metadata, ort_outputs,
                   report, pooling>>
    /\ history' = Performed(history, pc', <<"forward">>)

\* one capture of the model's forward pass as a static graph
Capture(m) == [captured |-> TRUE, outputs |-> Forward(m), patches |-> patchCount]

\* the graph an exporter builds from a captured one and the output names
Export(g, names) ==
    [captured |-> TRUE, outputs |-> g.outputs, names |-> GraphNames(names, g.outputs)]

\* coreml.py, step 5: traced_model = torch.jit.trace(model, (...))
TraceModel ==
    /\ pc = "trace"
    /\ \/ /\ traced' = Capture(model)
          /\ pc' = After(pipeline, "trace")
       \/ /\ traced' = traced
          /\ pc' = "aborted"
    /\ UNCHANGED <<pipeline, patchCount, config, model, downloads, state_dict,
                   new_state_dict, missing, unexpected, warnings, outputs,
                   output_names, exported, artifacts, metadata, ort_outputs,
                   report, pooling>>
    /\ history' = Performed(history, pc', <<"capture">>)

\* coreml.py, step 6: output_names and coremltools.convert(traced_model, ...)
ConvertCoreml ==
    /\ pc = "convert"
    /\ output_names' = OutputNames
    /\ \/ /\ ~NamesRefused(pipeline, OutputNames, traced.outputs)
          /\ exported' = Export(traced, OutputNames)
          /\ pc' = After(pipeline, "convert")
       \/ /\ exported' = exported
          /\ pc' = "aborted"
    /\ UNCHANGED <<pipeline, patchCount, config, model, downloads, state_dict,
                   new_state_dict, missing, unexpected, warnings, outputs, traced,
                   artifacts, metadata, ort_outputs, report, pooling>>
    /\ history' = Performed(history, pc', <<"export">>)

\* coreml.py, step 7: mlmodel.save("PromptGrader.mlpackage")
SaveMlpackage ==
    /\ pc = "save"
    /\ \/ /\ artifacts' = Append(artifacts, ModelFile(pipeline))
          /\ pc' = After(pipeline, "save")
       \/ /\ artifacts' = artifacts
          /\ pc' = "aborted"
    /\ UNCHANGED <<pipeline, patchCount, config, model, downloads, state_dict,
                   new_state_dict, missing, unexpected, warnings, outputs, traced,
                   output_names, exported, metadata, ort_outputs, report,
                   pooling>>
    /\ history' = Performed(history, pc', <<"save_model">>)

\* onnx_convert.py, step 6: output_names and torch.onnx.export(model, ...,
\* onnx_path, ...), which captures the model and writes model.onnx
ExportOnnx ==
    /\ pc = "export"
    /\ output_names' = OutputNames
    /\ \/ /\ ~NamesRefused(pipeline, OutputNames, Forward(model))
          /\ traced' = Capture(model)
          /\ exported' = Export(Capture(model), OutputNames)
          /\ artifacts' = Append(artifacts, ModelFile(pipeline))
          /\ pc' = After(pipeline, "export")
       \/ /\ UNCHANGED <<traced, exported, artifacts>>
          /\ pc' = "aborted"
    /\ UNCHANGED <<pipeline, patchCount, config, model, downloads, state_dict,
                   new_state_dict, missing, unexpected, warnings, outputs,
                   metadata, ort_outputs, report, pooling>>
    /\ history' = Performed(history, pc', <<"capture", "export">>)

\* onnx_convert.py, step 7: onnx.load and onnx.checker.check_model
VerifyOnnx ==
    /\ pc = "verify"
    /\ \/ pc' = After(pipeline, "verify")
       \/ pc' = "aborted"
    /\ UNCHANGED <<pipeline, patchCount, config, model, downloads, state_dict,
                   new_state_dict, missing, unexpected, warnings, outputs, traced,
                   output_names, exported, artifacts, metadata, ort_outputs,
                   report, pooling>>
    /\ history' = Performed(history, pc', <<"validate">>)

\* the largest absolute difference of two tensors, in units of 1e-6 (the
\* loop prints six decimals), or NaN
Deviations ==
    { [nan |-> FALSE, units |-> Tolerance - 1], [nan |-> FALSE, units |-> Tolerance],
      [nan |-> FALSE, units |-> Tolerance + 1], [nan |-> TRUE, units |-> 0] }

\* onnx_convert.py, step 8: ort.InferenceSession(onnx_path) and session.run,
\* which returns one array per output of the graph, in the graph's order
OrtSession ==
    /\ pc = "ort_session"
    /\ \/ /\ \E odd, even \in Deviations :
               ort_outputs' =
                   [i \in 1..Len(exported.outputs) |->
                       [head |-> exported.outputs[i].head,
                        width |-> exported.outputs[i].width,
                        deviation |-> IF i % 2 = 1 THEN odd ELSE even]]
          /\ pc' = After(pipeline, "ort_session")
       \/ /\ ort_outputs' = ort_outputs
          /\ pc' = "aborted"
    /\ UNCHANGED <<pipeline, patchCount, config, model, downloads, state_dict,
                   new_state_dict, missing, unexpected, warnings, outputs, traced,
                   output_names, exported, artifacts, metadata, report,
                   pooling>>
    /\ history' = Performed(history, pc', <<"session">>)

\* diff < 1e-4, which is False of a NaN
BelowTolerance(diff) == ~diff.nan /\ diff.units < Tolerance

\* the number of pairs zip(outputs, ort_outputs) yields
Pairs(pt, ort) == IF Len(pt) < Len(ort) THEN Len(pt) ELSE Len(ort)

\* output_names[i] of an iteration past the end of the list: IndexError
LoopRaises(pt, ort, names) == Pairs(pt, ort) > Len(names)

\* the lines the loop prints: one for each pair, up to the iteration that
\* raises
ReportLines(pt, ort, names) ==
    LET printed == IF LoopRaises(pt, ort, names) THEN Len(names) ELSE Pairs(pt, ort)
    IN  [i \in 1..printed |->
            [status |-> IF BelowTolerance(ort[i].deviation) THEN "pass" ELSE "warn",
             name |-> names[i],
             diff |-> ort[i].deviation]]

\* onnx_convert.py, step 8: the comparison loop over
\* enumerate(zip(outputs, ort_outputs))
CompareOutputs ==
    /\ pc = "compare"
    /\ report' = ReportLines(outputs, ort_outputs, output_names)
    /\ pc' = IF LoopRaises(outputs, ort_outputs, output_names)
             THEN "aborted"
             ELSE After(pipeline, "compare")
    /\ UNCHANGED <<pipeline, patchCount, config, model, downloads, state_dict,
                   new_state_dict, missing, unexpected, warnings, outputs, traced,
                   output_names, exported, artifacts, metadata, ort_outputs,
                   pooling>>
    /\ history' = Performed(history, pc', <<"parity">>)

\* onnx_convert.py, step 9: tokenizer.save_pretrained(output_dir)
SaveTokenizer ==
    /\ pc = "save_tokenizer"
    /\ \/ /\ artifacts' = artifacts \o TokenizerFiles
          /\ pc' = After(pipeline, "save_tokenizer")
       \/ /\ artifacts' = artifacts
          /\ pc' = "aborted"
    /\ UNCHANGED <<pipeline, patchCount, config, model, downloads, state_dict,
                   new_state_dict, missing, unexpected, warnings, outputs, traced,
                   output_names, exported, metadata, ort_outputs, report,
                   pooling>>
    /\ history' = Performed(history, pc', <<"tokenizer">>)

\* onnx_convert.py, step 10: config.save_pretrained(output_dir)
SaveConfig ==
    /\ pc = "save_config"
    /\ \/ /\ artifacts' = Append(artifacts, ConfigFile)
          /\ pc' = After(pipeline, "save_config")
       \/ /\ artifacts' = artifacts
          /\ pc' = "aborted"
    /\ UNCHANGED <<pipeline, patchCount, config, model, downloads, state_dict,
                   new_state_dict, missing, unexpected, warnings, outputs, traced,
                   output_names, exported, metadata, ort_outputs, report,
                   pooling>>
    /\ history' = Performed(history, pc', <<"config_copy">>)

\* Metadata without its divisor_map entry
MetadataWithoutDivisors(cfg, names) ==
    [written |-> TRUE,
     task_type_map |-> JsonDumpObject(cfg.task_type_map),
     weights_map |-> JsonDumpObject(cfg.weights_map),
     target_sizes |-> cfg.target_sizes,
     output_names |-> names]

\* the metadata dict of step 11 as json.dump writes it: one field for each
\* of its keys (and written).  The three maps are held as the JSON objects
\* written; target_sizes (str keys, int values) and output_names (a list of
\* str) are held as the values given to json.dump
Metadata(cfg, names) ==
    [written |-> TRUE,
     task_type_map |-> JsonDumpObject(cfg.task_type_map),
     weights_map |-> JsonDumpObject(cfg.weights_map),
     divisor_map |-> JsonDumpObject(cfg.divisor_map),
     target_sizes |-> cfg.target_sizes,
     output_names |-> names]

\* onnx_convert.py, step 11: json.dump(metadata, f) to classifier_metadata.json
WriteMetadata ==
    /\ pc = "write_metadata"
    /\ \/ /\ metadata' = Metadata(config, output_names)
          /\ artifacts' = Append(artifacts, MetadataFile)
          /\ pc' = After(pipeline, "write_metadata")
       \/ /\ UNCHANGED <<metadata, artifacts>>
          /\ pc' = "aborted"
    /\ UNCHANGED <<pipeline, patchCount, config, model, downloads, state_dict,
                   new_state_dict, missing, unexpected, warnings, outputs, traced,
                   output_names, exported, ort_outputs, report, pooling>>
    /\ history' = Performed(history, pc', <<"metadata">>)

Next ==
    \/ ImportModule
    \/ LoadConfig
    \/ InitModel
    \/ DownloadSafetensors
    \/ DownloadBin
    \/ LoadWeights
    \/ PrepareInput
    \/ ForwardPass
    \/ TraceModel
    \/ ConvertCoreml
    \/ SaveMlpackage
    \/ ExportOnnx
    \/ VerifyOnnx
    \/ OrtSession
    \/ CompareOutputs
    \/ SaveTokenizer
    \/ SaveConfig
    \/ WriteMetadata

Spec == Init /\ [][Next]_vars

-----------------------------------------------------------------------------
(* MeanPooling.forward, the same in both scripts, on one sequence (a batch  *)
(* of one).  Hidden states are integers; a sum or a quotient is the exact   *)
(* fraction [n, d] with d > 0, or the non-finite result of dividing by 0.   *)

Fraction(n, d) == [finite |-> TRUE, n |-> n, d |-> d]

\* the minimum of the clamp, 1e-9
Epsilon == Fraction(1, EpsilonInverse)

\* a < b, by whole parts first and then by remainders
FractionLess(a, b) ==
    LET qa == a.n \div a.d
        qb == b.n \div b.d
    IN  IF qa # qb THEN qa < qb
        ELSE (a.n % a.d) * b.d < (b.n % b.d) * a.d

\* Clamp with no minimum applied
ClampNone(x, min) == x

\* torch.clamp(x, min=min)
Clamp(x, min) == IF FractionLess(x, min) THEN min ELSE x

\* a / b of floating-point division: NaN or an infinity when b is 0
Divide(a, b) ==
    IF b.n = 0 THEN [finite |-> FALSE, n |-> a.n, d |-> 0]
    ELSE Fraction(a.n * b.d, a.d * b.n)

\* torch.sum(t, 1) of the integers t[1..] (0 for none)
RECURSIVE SumOver(_)
SumOver(t) == IF t = <<>> THEN 0 ELSE Head(t) + SumOver(Tail(t))

\* MeanPooling.forward(last_hidden_state, attention_mask)
MeanPooling(last_hidden_state, attention_mask) ==
    LET dims == 1..Len(last_hidden_state[1])
        input_mask_expanded ==
            [t \in 1..Len(attention_mask) |-> [j \in dims |-> attention_mask[t]]]
        sum_embeddings ==
            [j \in dims |->
                SumOver([t \in 1..Len(last_hidden_state) |->
                            last_hidden_state[t][j] * input_mask_expanded[t][j]])]
        sum_mask ==
            [j \in dims |->
                Clamp(Fraction(SumOver([t \in 1..Len(input_mask_expanded) |->
                                           input_mask_expanded[t][j]]), 1),
                      Epsilon)]
    IN  [sum_embeddings |-> sum_embeddings,
         sum_mask |-> sum_mask,
         mean_embeddings |->
            [j \in dims |-> Divide(Fraction(sum_embeddings[j], 1), sum_mask[j])]]

\* the entries of the hidden states drawn
HiddenValues == {-1, 0, 2}

\* the hidden states of seq_len tokens and hidden_dim dimensions
HiddenStates(seq_len, hidden_dim) == [1..seq_len -> [1..hidden_dim -> HiddenValues]]

\* a call of MeanPooling.forward is about to be made on some hidden states
\* and some mask of the same length with entries in {0, 1}
InitPool ==
    /\ pipeline \in {"coreml", "onnx"}
    /\ pc = "import"
    /\ patchCount = 0
    /\ config = NoConfig
    /\ model = NoModel
    /\ downloads = <<>>
    /\ state_dict = <<>>
    /\ new_state_dict = <<>>
    /\ missing = <<>>
    /\ unexpected = <<>>
    /\ warnings = <<>>
    /\ outputs = <<>>
    /\ traced = NoGraph
    /\ output_names = <<>>
    /\ exported = NoGraph
    /\ artifacts = <<>>
    /\ metadata = NoMetadata
    /\ ort_outputs = <<>>
    /\ report = <<>>
    /\ history = <<>>
    /\ \E seq_len \in 1..MaxSeq, hidden_dim \in 1..MaxDim :
         \E h \in HiddenStates(seq_len, hidden_dim), m \in [1..seq_len -> {0, 1}] :
            pooling = [state |-> "called", last_hidden_state |-> h, attention_mask |-> m]

\* the call returns
Pool ==
    /\ pooling.state = "called"
    /\ LET r == MeanPooling(pooling.last_hidden_state, pooling.attention_mask)
       IN  pooling' = [state |-> "pooled",
                       last_hidden_state |-> pooling.last_hidden_state,
                       attention_mask |-> pooling.attention_mask,
                       sum_embeddings |-> r.sum_embeddings,
                       sum_mask |-> r.sum_mask,
                       mean_embeddings |-> r.mean_embeddings]
    /\ UNCHANGED <<pipeline, pc, patchCount, config, model, downloads, state_dict,
                   new_state_dict, missing, unexpected, warnings, outputs, traced,
                   output_names, exported, artifacts, metadata, ort_outputs,
                   report, history>>

SpecPool == InitPool /\ [][Pool]_vars

\* the number of tokens the mask of the call keeps
Kept == Cardinality({t \in 1..Len(pooling.attention_mask) : pooling.attention_mask[t] = 1})

(* C16: for every hidden-state tensor and every mask with entries in     *)
(* {0, 1}, MeanPooling divides the masked sum by max(sum(mask), 1e-9),   *)
(* which is strictly positive, so the pooled vector is finite; for an    *)
(* all-zero mask the masked sum is zero and the pooled vector is the     *)
(* all-zero vector.                                                      *)
C16_PoolingDivisorPositive ==
    pooling.state = "pooled" =>
        \A j \in 1..Len(pooling.mean_embeddings) :
            /\ pooling.sum_mask[j].n > 0 /\ pooling.sum_mask[j].d > 0
            /\ pooling.sum_mask[j] =
                 IF Kept = 0 THEN [finite |-> TRUE, n |-> 1, d |-> 1000000000]
                 ELSE [finite |-> TRUE, n |-> Kept, d |-> 1]
            /\ pooling.mean_embeddings[j].finite
            /\ pooling.mean_embeddings[j].d > 0
            /\ pooling.mean_embeddings[j].n * pooling.sum_mask[j].n =
                 pooling.sum_embeddings[j] * pooling.sum_mask[j].d * pooling.mean_embeddings[j].d
            /\ Kept = 0 =>
                 /\ pooling.sum_embeddings[j] = 0
                 /\ pooling.mean_embeddings[j].n = 0

\* the call was made with an all-zero mask of two tokens on hidden states
\* that are not zero, and has returned
C16_Witness ==
    /\ pooling.state = "pooled"
    /\ pooling.attention_mask = <<0, 0>>
    /\ pooling.last_hidden_state[1][1] = 2
    /\ pooling.mean_embeddings[1].n = 0

-----------------------------------------------------------------------------
(* load_weights_from_original on any small weight store *)

\* the keys a drawn store may hold: of both head schemes, with head_ a second
\* time in the key, with head_ and no index, and of the backbone
DrawnKeys ==
    { EnumHeadKeys(0)[1], EnumHeadKeys(1)[1], ListHeadKeys(0)[1], K_head0_headproj,
      K_head_norm, K_backbone_weight, K_backbone_head }

\* the lists of at most n different keys
RECURSIVE KeyLists(_)
KeyLists(n) ==
    IF n = 0 THEN {<<>>}
    ELSE LET shorter == KeyLists(n - 1)
         IN  shorter \cup {Append(l, k) : l \in shorter, k \in DrawnKeys}

\* the weight stores of at most MaxKeys entries over DrawnKeys
DrawnStores ==
    UNION { {[i \in 1..Len(l) |-> [key |-> l[i], value |-> t[i]]] :
                t \in [1..Len(l) -> 1..MaxTensor]} :
            l \in {m \in KeyLists(MaxKeys) : Cardinality(Range(m)) = Len(m)} }

\* an onnx_convert.py run that has reached load_weights_from_original with
\* some store downloaded
InitRemap ==
    /\ pipeline = "onnx"
    /\ pc = "load_weights"
    /\ patchCount = 0
    /\ \E n \in 1..2 : config = ConfigFrom(SubSeq(HeadPool, 1, n), FALSE)
    /\ \E hasBuffer \in BOOLEAN : model = NewModel(pipeline, config.target_sizes, hasBuffer)
    /\ downloads = <<[file |-> WeightFiles[1], ok |-> TRUE]>>
    /\ state_dict \in DrawnStores
    /\ new_state_dict = <<>>
    /\ missing = <<>>
    /\ unexpected = <<>>
    /\ warnings = <<>>
    /\ outputs = <<>>
    /\ traced = NoGraph
    /\ output_names = <<>>
    /\ exported = NoGraph
    /\ artifacts = <<>>
    /\ metadata = NoMetadata
    /\ pooling = NoPooling
    /\ history = <<"config", "wrapper", "download">>
    /\ report = <<>>
    /\ ort_outputs = <<>>

SpecRemap == InitRemap /\ [][LoadWeights]_vars

\* load_weights_from_original has run
Remapped == pipeline = "onnx" /\ pc = After("onnx", "load_weights")

\* k reads <prefix><digits>.<rest>
HasIndexAfter(k, prefix) ==
    /\ StartsWith(k, prefix)
    /\ \E j \in (Len(prefix) + 1)..(Len(k) - 1) :
         /\ \A i \in (Len(prefix) + 1)..j : IsDigit(k[i])
         /\ k[j + 1] = "."

\* the head pattern head_<i>.* of the enumerated scheme
IsEnumHeadKey(k) == HasIndexAfter(k, S_head_)

\* the head pattern heads.<i>.* of the list scheme
IsListHeadKey(k) == HasIndexAfter(k, S_heads_dot)

\* the inverse rename: heads.<i>.<rest> back to head_<i>.<rest>
InverseKey(k) ==
    IF IsListHeadKey(k) THEN S_head_ \o SubSeq(k, Len(S_heads_dot) + 1, Len(k)) ELSE k

RECURSIVE InverseInto(_, _)
InverseInto(new, items) ==
    IF items = <<>> THEN new
    ELSE InverseInto(DictSet(new, InverseKey(Head(items).key), Head(items).value), Tail(items))

InverseRemap(sd) == InverseInto(<<>>, sd)

\* two stores hold the same keys with the same tensor under every key
SameStore(a, b) == Keys(a) = Keys(b) /\ \A k \in Keys(a) : DictGet(a, k) = DictGet(b, k)

\* a store of the enumerated scheme: none of its keys is a list-scheme key
InEnumScheme(sd) == \A k \in Keys(sd) : ~IsListHeadKey(k)

(* C1: remapping a weight store from the enumerated scheme to the list   *)
(* scheme and renaming it back yields the store itself: the same keys,   *)
(* the same tensor under each.                                           *)
C1_RoundTrip ==
    (Remapped /\ InEnumScheme(state_dict)) =>
        SameStore(InverseRemap(new_state_dict), state_dict)

(* C2: the remapped store has as many entries as the input, and no two   *)
(* different input keys are stored under the same key.                   *)
C2_TotalLossless ==
    Remapped =>
        /\ Len(new_state_dict) = Len(state_dict)
        /\ \A i, j \in 1..Len(state_dict) :
             i # j => NewKey(state_dict[i].key) # NewKey(state_dict[j].key)

(* C3: every input key head_<i>.<rest> is found in the remapped store as *)
(* heads.<i>.<rest>, the rest untouched, with the tensor it had.         *)
C3_HeadKeyRewritten ==
    Remapped =>
        \A i \in 1..Len(state_dict) :
            IsEnumHeadKey(state_dict[i].key) =>
                LET renamed == S_heads_dot \o SubSeq(state_dict[i].key, Len(S_head_) + 1,
                                                     Len(state_dict[i].key))
                IN  /\ renamed \in Keys(new_state_dict)
                    /\ DictGet(new_state_dict, renamed) = state_dict[i].value

(* C4: every input key that does not match head_<i>.* is found in the    *)
(* remapped store under the same key with the tensor it had.             *)
C4_OtherKeysPassThrough ==
    Remapped =>
        \A i \in 1..Len(state_dict) :
            ~IsEnumHeadKey(state_dict[i].key) =>
                /\ state_dict[i].key \in Keys(new_state_dict)
                /\ DictGet(new_state_dict, state_dict[i].key) = state_dict[i].value

-----------------------------------------------------------------------------
(* The runs of the two scripts *)

\* the run has ended: by its last statement, or by an uncaught exception
Ended == pc \in {"done", "aborted"}

\* the number of heads of the loaded configuration
NumHeads == Len(config.target_sizes)

(* C5: no run in which a weight key of the model (of a head or of the    *)
(* backbone) is absent from the loaded store reaches graph capture or    *)
(* export: the load aborts it.  (A missing or unexpected buffer key only *)
(* warns.)                                                               *)
C5_MissingWeightAborts ==
    (traced.captured \/ exported.captured) =>
        \A k \in Range(model.param_keys) : k \notin Range(missing)

(* C6: the binary file is tried only after the safetensors attempt has   *)
(* failed, at most one fallback is taken, the weights used are those of  *)
(* the first attempt that succeeded, and when both attempts fail the run *)
(* is aborted with no graph captured or exported and nothing written.    *)
C6_DownloadFallback ==
    /\ Len(downloads) <= 2
    /\ Len(downloads) >= 1 => downloads[1].file = "model.safetensors"
    /\ Len(downloads) = 2 => (downloads[2].file = "pytorch_model.bin" /\ ~downloads[1].ok)
    /\ \A i \in 1..Len(downloads) :
         (downloads[i].ok /\ \A j \in 1..(i - 1) : ~downloads[j].ok) =>
            /\ state_dict # <<>>
            /\ \A e \in Range(state_dict) : e.value = FileTensor(downloads[i].file)
            /\ model.built =>
                 \A e \in Range(model.tensors) :
                    e.value \in {InitTensor, FileTensor(downloads[i].file)}
    /\ (\A i \in 1..Len(downloads) : ~downloads[i].ok) =>
         /\ state_dict = <<>>
         /\ ~traced.captured /\ ~exported.captured /\ artifacts = <<>>
         /\ Len(downloads) = 2 => pc = "aborted"

\* the fallback was taken, succeeded, and its weights are in the model of a
\* run that went on to its end
C6_Witness ==
    /\ pc = "done"
    /\ Len(downloads) = 2 /\ downloads[2].ok
    /\ \E e \in Range(model.tensors) : e.value = FileTensor("pytorch_model.bin")

(* C7 as stated: in either pipeline the patch is applied exactly once,   *)
(* before any wrapper is instantiated; no model is constructed or        *)
(* captured with the encoder module unpatched.                           *)
C7_PatchedOnceBeforeModel ==
    /\ patchCount <= 1
    /\ pc # "import" => patchCount = 1
    /\ model.built => model.patches = 1
    /\ traced.captured => traced.patches = 1

(* C7 amended: the CoreML script applies the patch exactly once, at      *)
(* import, before its wrapper is instantiated and its graph captured;    *)
(* the ONNX script never applies it, and builds and captures its model   *)
(* with the encoder module unpatched.                                    *)
C7_PatchedOnceInCoremlOnly ==
    /\ patchCount = IF pipeline = "coreml" /\ pc # "import" THEN 1 ELSE 0
    /\ model.built => model.patches = (IF pipeline = "coreml" THEN 1 ELSE 0)
    /\ traced.captured => traced.patches = (IF pipeline = "coreml" THEN 1 ELSE 0)

\* a CoreML run has built its wrapper and captured the graph
C7_Witness == pipeline = "coreml" /\ model.built /\ traced.captured /\ patchCount = 1

\* the files a complete run of a script leaves
CompleteArtifacts(p) ==
    IF p = "onnx"
    THEN {ModelFile(p), ConfigFile, MetadataFile} \cup Range(TokenizerFiles)
    ELSE {ModelFile(p)}

(* C8: a run that has ended has written the complete artifact set or no  *)
(* artifact at all.                                                      *)
C8_AllOrNothing ==
    Ended => (artifacts = <<>> \/ Range(artifacts) = CompleteArtifacts(pipeline))

(* C9 as stated: the number of heads built, the length of the            *)
(* output-name list given to the exporter and written to the sidecar,    *)
(* and the number of outputs of the exported graph all equal N.          *)
C9_CountsEqualHeads ==
    /\ model.built => Len(model.heads) = NumHeads
    /\ output_names # <<>> => Len(output_names) = NumHeads
    /\ metadata.written => Len(metadata.output_names) = NumHeads
    /\ exported.captured => Len(exported.outputs) = NumHeads

(* C9 amended: the wrapper builds N heads and an exported graph has N    *)
(* outputs, but the output-name list given to the exporter and written   *)
(* to the sidecar has 8 entries whatever N is; so the counts are all     *)
(* equal exactly when N = 8.                                             *)
C9_EightNamesForAnyHeads ==
    /\ model.built => Len(model.heads) = NumHeads
    /\ exported.captured => Len(exported.outputs) = NumHeads
    /\ output_names # <<>> => Len(output_names) = 8
    /\ metadata.written => Len(metadata.output_names) = 8
    /\ (model.built /\ exported.captured) =>
         ((Len(model.heads) = Len(output_names) /\ Len(output_names) = Len(exported.outputs))
            <=> NumHeads = 8)

\* a run of 8 heads has exported its graph and written the sidecar
C9_Witness ==
    /\ config.loaded /\ NumHeads = 8
    /\ model.built /\ Len(model.heads) = 8
    /\ exported.captured /\ Len(exported.outputs) = 8
    /\ metadata.written /\ Len(metadata.output_names) = 8

(* C10 as stated: the i-th output name is logits_<head_name> for the     *)
(* i-th head of the configuration's target_sizes, in the list given to   *)
(* the exporter and in the sidecar.                                      *)
C10_NamesFromHeads ==
    /\ output_names # <<>> =>
         \A i \in 1..NumHeads :
            i <= Len(output_names) /\ output_names[i] = "logits_" \o config.target_sizes[i].name
    /\ metadata.written =>
         \A i \in 1..NumHeads :
            /\ i <= Len(metadata.output_names)
            /\ metadata.output_names[i] = "logits_" \o config.target_sizes[i].name

\* logits_<head_name> of the shipped heads, but logits_few_shots for the
\* fifth head, number_of_few_shots
ShippedNames ==
    [i \in 1..Len(ShippedTargetSizes) |->
        IF i = 5 THEN "logits_few_shots" ELSE "logits_" \o ShippedTargetSizes[i].name]

(* C10 amended: in both pipelines the output names are one fixed list,   *)
(* whatever the configuration: logits_<head_name> of the shipped         *)
(* configuration's heads in their order, except the fifth, which is      *)
(* logits_few_shots for the head number_of_few_shots; the sidecar and    *)
(* the exported graph carry that list in that order.                     *)
C10_NamesFixed ==
    /\ output_names # <<>> => output_names = ShippedNames
    /\ metadata.written => metadata.output_names = ShippedNames
    /\ exported.captured =>
         \A i \in 1..Len(exported.names) :
            i <= Len(ShippedNames) => exported.names[i] = ShippedNames[i]

\* a run on the shipped configuration has exported and written the sidecar
C10_Witness ==
    /\ config.loaded /\ config.target_sizes = ShippedTargetSizes
    /\ exported.captured /\ metadata.written
    /\ metadata.output_names[5] = "logits_few_shots"

\* the tensors outs are those of the heads 0..N-1 in this order, each as
\* wide as the target_sizes value at its position
InHeadOrder(outs) ==
    /\ Len(outs) = NumHeads
    /\ \A i \in 1..Len(outs) :
         /\ outs[i].head = i - 1
         /\ i <= NumHeads => outs[i].width = config.target_sizes[i].size

\* the widths of the tensors outs
Widths(outs) == [i \in 1..Len(outs) |-> outs[i].width]

(* C11: the i-th element of the tuple a wrapper's forward pass returns   *)
(* is the output of the i-th head, and is as wide as the i-th value of   *)
(* target_sizes; on the shipped configuration the widths are             *)
(* 12, 3, 2, 2, 6, 4, 1, 2.  This holds of the eager outputs and of the  *)
(* outputs of the captured and of the exported graph.                    *)
C11_OutputsInHeadOrder ==
    /\ outputs # <<>> => InHeadOrder(outputs)
    /\ traced.captured => InHeadOrder(traced.outputs)
    /\ exported.captured => InHeadOrder(exported.outputs)
    /\ (traced.captured /\ config.target_sizes = ShippedTargetSizes) =>
         Widths(traced.outputs) = <<12, 3, 2, 2, 6, 4, 1, 2>>

\* the shipped configuration's graph has been captured and exported, with
\* the width of each head at its place
C11_Witness ==
    /\ config.loaded /\ config.target_sizes = ShippedTargetSizes
    /\ exported.captured
    /\ Widths(exported.outputs) = <<12, 3, 2, 2, 6, 4, 1, 2>>

(* C12: the comparison loop prints exactly one line for each of the N   *)
(* heads, with that head's output name and its deviation, marked pass    *)
(* when the deviation is below 1e-4 and warn otherwise; whatever the     *)
(* deviations are the loop does not abort the run, which goes on to      *)
(* save the tokenizer.                                                   *)
C12_ParityAdvisory ==
    [][pc = "compare" =>
         /\ pc' = "save_tokenizer"
         /\ Len(report') = NumHeads
         /\ \A i \in 1..NumHeads :
              /\ report'[i].name = exported.names[i]
              /\ report'[i].diff = ort_outputs[i].deviation
              /\ report'[i].status = "pass" <=>
                     (~ort_outputs[i].deviation.nan /\ ort_outputs[i].deviation.units < 100)
              /\ report'[i].status \in {"pass", "warn"}]_vars

\* a is b or a beginning of b
Prefix(a, b) == Len(a) <= Len(b) /\ SubSeq(b, 1, Len(a)) = a

\* the order of steps the claim states
ClaimedOrder ==
    <<"config", "patch", "wrapper", "download", "remap", "load", "input",
      "capture", "export", "parity", "metadata">>

\* the steps of the claimed order among those the run has completed
ClaimedDone == SelectSeq(history, LAMBDA step : step \in Range(ClaimedOrder))

C14_MetadataRoundTrip ==
    metadata.written =>
        /\ JsonLoadObject(metadata.task_type_map) = config.task_type_map
        /\ JsonLoadObject(metadata.weights_map) = config.weights_map
        /\ JsonLoadObject(metadata.divisor_map) = config.divisor_map
        /\ Len(metadata.task_type_map) = Len(config.task_type_map)
        /\ Len(metadata.weights_map) = Len(config.weights_map)
        /\ Len(metadata.divisor_map) = Len(config.divisor_map)

\* the sidecar of the shipped configuration has been written, with its 12
\* task names, and with float weights and divisors
C14_Witness ==
    /\ metadata.written
    /\ config.target_sizes = ShippedTargetSizes
    /\ Len(metadata.task_type_map) = 12
    /\ Len(metadata.weights_map) = 7
    /\ config.divisor_map[1].value.type = "float"

(* C15: the sidecar onnx_convert.py writes has exactly the five          *)
(* top-level keys task_type_map, weights_map, divisor_map, target_sizes  *)
(* and output_names, the first four carrying the configuration's values, *)
(* and no step of the run changes the configuration once it is loaded.   *)
C15_FiveKeysConfigUnmodified ==
    /\ [](metadata.written =>
            /\ pipeline = "onnx"
            /\ DOMAIN metadata \ {"written"} =
                 {"task_type_map", "weights_map", "divisor_map", "target_sizes",
                  "output_names"}
            /\ metadata.task_type_map = JsonDumpObject(config.task_type_map)
            /\ metadata.weights_map = JsonDumpObject(config.weights_map)
            /\ metadata.divisor_map = JsonDumpObject(config.divisor_map)
            /\ metadata.target_sizes = config.target_sizes)
    /\ [][config.loaded => config' = config]_vars

\* a run of 8 heads has saved the configuration and written the sidecar
C15_Witness ==
    /\ pipeline = "onnx" /\ pc = "done"
    /\ metadata.written /\ Len(metadata.target_sizes) = 8
    /\ \E i \in 1..Len(artifacts) : artifacts[i] = ConfigFile

\* a head key of either scheme
IsHeadKey(k) == IsEnumHeadKey(k) \/ IsListHeadKey(k)

\* the keys <prefix><i>.fc.weight and <prefix><i>.fc.bias of the heads 0..n-1
FcKeys(prefix, n) ==
    {prefix \o ToStr(i) \o S_fc_weight : i \in 0..(n - 1)}
        \cup {prefix \o ToStr(i) \o S_fc_bias : i \in 0..(n - 1)}

\* the wrapper has been loaded from the store
Loaded == model.built /\ model.eval

(* C17: each wrapper registers its head parameters under one key scheme: *)
(* OriginalCustomModel under head_<i>.fc.* for i in 0..N-1 and under no  *)
(* heads.<i>.* key, PromptClassifierONNX under heads.<i>.fc.* only; and  *)
(* when the downloaded store holds the head keys of the enumerated       *)
(* scheme for N heads, the load reports no head key missing and none     *)
(* unexpected, in either script.                                         *)
C17_OneKeyScheme ==
    /\ model.built =>
         {k \in Range(model.param_keys) : IsHeadKey(k)} =
            FcKeys(IF pipeline = "coreml" THEN S_head_ ELSE S_heads_dot, NumHeads)
    /\ (Loaded /\ FcKeys(S_head_, NumHeads) \subseteq Keys(state_dict)) =>
         /\ \A k \in Range(missing) : ~IsHeadKey(k)
         /\ \A k \in Range(unexpected) : ~IsHeadKey(k)

\* PromptClassifierONNX has been loaded from the remapped store of a file
\* that holds the keys of all 8 heads and lacks a backbone key
C17_Witness ==
    /\ pipeline = "onnx" /\ Loaded /\ NumHeads = 8
    /\ FcKeys(S_head_, 8) \subseteq Keys(state_dict)
    /\ FcKeys(S_heads_dot, 8) \subseteq Keys(new_state_dict)
    /\ missing # <<>>

=============================================================================
